---- MODULE Spec2Model ----
(***************************************************************************)
(* A model of the order / payment flow of hello-page:                      *)
(*   - the Midtrans webhook  (supabase/functions/midtrans-webhook)         *)
(*   - the super-admin-xendit-secret edge function                         *)
(*   - the useDomainSuggestions React hook                                 *)
(*                                                                         *)
(* Strings are sequences of character codes (ASCII), so that trim(),       *)
(* startsWith() and length are computed the way the code computes them.    *)
(* Database tables are sets (or sequences) of rows; every database call    *)
(* is one atomic step that may fail.                                       *)
(***************************************************************************)
EXTENDS Integers, Sequences, FiniteSets, TLC

VARIABLES
    \* ---- hosted database -------------------------------------------------
    integration_secrets,   \* set of rows [provider, name, ciphertext, iv]
    orders,                \* set of rows of table orders
    domain_pricing_settings, \* set of rows [default_package_id]
    user_packages,         \* sequence of inserted rows (index = insertion order)
    profiles,              \* set of rows [id, account_status, payment_active, updated_at]
    clock,                 \* the wall clock read by new Date()
    \* ---- Midtrans webhook: one entry per request being served ----------
    pc,                    \* position of each request in the handler
    req,                   \* the HTTP request
    serverKeys,            \* locals `prodKey` and `sandKey`
    env,                   \* local `env`
    order,                 \* local `order` (id, user_id, subscription_years)
    packageId,             \* local `packageId`
    now,                   \* local `now`
    resp,                  \* the HTTP response, once the handler returned
    dbFailed,              \* history: some database call of this request failed
    pkgOrder,              \* history: the order each user_packages row was inserted for
    \* ---- super-admin-xendit-secret -------------------------------------
    user_roles,            \* set of rows [user_id, role]
    xReq,                  \* the last request served
    xResp,                 \* its response
    xTouched,              \* history: what it did to the xendit row: none/read/upsert/delete
    \* ---- useDomainSuggestions ------------------------------------------
    hPhase,                \* "init" (not rendered yet), "mounted", "unmounted"
    hProps,                \* the arguments of the last render: query, enabled, debounceMs
    hState,                \* the hook's state: loading, error, items
    hTimerRef,             \* timer.current (0 for null)
    hCleanup,              \* whether the last effect returned its cleanup
    hTimers,               \* the window's pending timers: [id, q]
    hNextId,               \* the id the next window.setTimeout returns
    hCalls,                \* 'domainr-check' invocations awaiting their response: [id, q]
    hInvoked               \* history: every invocation made, with the props at that time

dbVars == <<integration_secrets, orders, domain_pricing_settings, user_packages, profiles, clock>>
whVars == <<pc, req, serverKeys, env, order, packageId, now, resp, dbFailed, pkgOrder>>
xenVars == <<user_roles, xReq, xResp, xTouched>>
hookVars == <<hPhase, hProps, hState, hTimerRef, hCleanup, hTimers, hNextId, hCalls, hInvoked>>
vars == <<dbVars, whVars, xenVars, hookVars>>

-----------------------------------------------------------------------------
(* Strings                                                                 *)

\* null / undefined / a missing JSON field
NULL == <<-1>>

\* String(v ?? "")
Str(v) == IF v = NULL THEN <<>> ELSE v

\* the characters String.prototype.trim removes (within ASCII)
IsSpace(c) == c \in {9, 10, 11, 12, 13, 32}

RECURSIVE TrimStart(_)
TrimStart(s) == IF s # <<>> /\ IsSpace(Head(s)) THEN TrimStart(Tail(s)) ELSE s

RECURSIVE TrimEnd(_)
TrimEnd(s) == IF s # <<>> /\ IsSpace(s[Len(s)]) THEN TrimEnd(SubSeq(s, 1, Len(s) - 1)) ELSE s

Trim(s) == TrimEnd(TrimStart(s))

\* String(v ?? "").trim()
TrimStr(v) == Trim(Str(v))

\* String(v ?? "").trim() || null
TrimOrNull(v) == IF TrimStr(v) = <<>> THEN NULL ELSE TrimStr(v)

StartsWith(s, p) == Len(s) >= Len(p) /\ SubSeq(s, 1, Len(p)) = p

\* SHA-512 as a collision-free digest: the digest of s is "#" followed by s,
\* so two digests are equal exactly when the inputs are.
sha512Hex(input) == <<35>> \o input

-----------------------------------------------------------------------------
(* Dates                                                                   *)

IsLeap(y) == (y % 4 = 0 /\ y % 100 # 0) \/ y % 400 = 0

DaysInMonth(y, m) ==
    IF m = 2 THEN (IF IsLeap(y) THEN 29 ELSE 28)
    ELSE IF m \in {4, 6, 9, 11} THEN 30 ELSE 31

\* mutant: a day past the end of the target month is clamped to its last day
addMonthsIsoClamped(date, months) ==
    LET idx == (date.month - 1) + months
        y   == date.year + (idx \div 12)
        m   == (idx % 12) + 1
        len == DaysInMonth(y, m)
    IN  [date EXCEPT !.year = y, !.month = m, !.day = IF date.day <= len THEN date.day ELSE len]

\* Date.prototype.setUTCMonth(getUTCMonth() + months), then toISOString():
\* the day of month is kept and a day past the end of the target month rolls
\* over into the next month.
addMonthsIso(date, months) ==
    LET idx == (date.month - 1) + months
        y   == date.year + (idx \div 12)
        m   == (idx % 12) + 1
        len == DaysInMonth(y, m)
    IN  IF date.day <= len
        THEN [date EXCEPT !.year = y, !.month = m]
        ELSE [date EXCEPT !.year  = IF m = 12 THEN y + 1 ELSE y,
                          !.month = IF m = 12 THEN 1 ELSE m + 1,
                          !.day   = date.day - len]

-----------------------------------------------------------------------------
(* Midtrans webhook: pure parts                                            *)

\* mutant: .single() instead of .maybeSingle(), an error when no row matches
MaybeSingleAsSingle(rows, fail) ==
    [error |-> fail \/ Cardinality(rows) # 1,
     found |-> ~fail /\ Cardinality(rows) = 1,
     rows  |-> rows]

\* .from(table).select().eq(...).maybeSingle(): an error when the call fails
\* or several rows match, else the row (or null)
MaybeSingle(rows, fail) ==
    [error |-> fail \/ Cardinality(rows) > 1,
     found |-> ~fail /\ Cardinality(rows) = 1,
     rows  |-> rows]

TheRow(res) == CHOOSE r \in res.rows : TRUE

SecretName(e) == IF e = "sandbox" THEN "server_key_sandbox" ELSE "server_key_production"

\* mutant: the row's iv is not looked at
getPlainServerKeyAnyIv(secrets, e, fail) ==
    LET res == MaybeSingle({r \in secrets : r.provider = "midtrans" /\ r.name = SecretName(e)}, fail)
        key == IF res.found THEN Str(TheRow(res).ciphertext) ELSE <<>>
    IN  IF res.error THEN [threw |-> TRUE, key |-> <<>>]
        ELSE IF Trim(key) = <<>> THEN [threw |-> TRUE, key |-> <<>>]
        ELSE [threw |-> FALSE, key |-> Trim(key)]

\* getPlainServerKey(admin, env): [threw, key]
getPlainServerKey(secrets, e, fail) ==
    LET res == MaybeSingle({r \in secrets : r.provider = "midtrans" /\ r.name = SecretName(e)}, fail)
        iv  == IF res.found THEN TheRow(res).iv ELSE ""
        key == IF iv = "plain" THEN Str(TheRow(res).ciphertext) ELSE <<>>
    IN  IF res.error THEN [threw |-> TRUE, key |-> <<>>]
        ELSE IF Trim(key) = <<>> THEN [threw |-> TRUE, key |-> <<>>]
        ELSE [threw |-> FALSE, key |-> Trim(key)]

\* getPlainServerKey(...).catch(() => "")
KeyOrEmpty(secrets, e, fail) ==
    LET r == getPlainServerKey(secrets, e, fail) IN IF r.threw THEN <<>> ELSE r.key

\* mutant: the server key is left out of the hashed string
verifySignatureNoKey(signature_key, order_id, status_code, gross_amount, server_key) ==
    sha512Hex(order_id \o status_code \o gross_amount) = signature_key

verifySignature(signature_key, order_id, status_code, gross_amount, server_key) ==
    sha512Hex(order_id \o status_code \o gross_amount \o server_key) = signature_key

\* the four mandatory fields, as the handler reads them
OrderIdOf(b)      == TrimStr(b.order_id)
StatusCodeOf(b)   == TrimStr(b.status_code)
GrossAmountOf(b)  == TrimStr(b.gross_amount)
SignatureKeyOf(b) == TrimStr(b.signature_key)

PayloadOk(b) ==
    /\ OrderIdOf(b) # <<>>
    /\ StatusCodeOf(b) # <<>>
    /\ GrossAmountOf(b) # <<>>
    /\ SignatureKeyOf(b) # <<>>

VerifiesWith(b, key) ==
    /\ key # <<>>
    /\ verifySignature(SignatureKeyOf(b), OrderIdOf(b), StatusCodeOf(b), GrossAmountOf(b), key)

IsProd(b, prodKey) == VerifiesWith(b, prodKey)
IsSandbox(b, prodKey, sandKey) == ~IsProd(b, prodKey) /\ VerifiesWith(b, sandKey)

TransactionStatusOf(b) == TrimOrNull(b.transaction_status)

Paid(ts)   == ts = <<115,101,116,116,108,101,109,101,110,116>>   \* "settlement"
              \/ ts = <<99,97,112,116,117,114,101>>              \* "capture"
Failed(ts) == ts = <<100,101,110,121>>                           \* "deny"
              \/ ts = <<99,97,110,99,101,108>>                   \* "cancel"
              \/ ts = <<101,120,112,105,114,101>>                \* "expire"

\* mutant: 'expire' is not treated as a failure
OrderStatusExpirePending(ts) ==
    IF Paid(ts) THEN "paid"
    ELSE IF Failed(ts) /\ ts # <<101,120,112,105,114,101>> THEN "failed" ELSE "pending"

OrderStatus(ts) == IF Paid(ts) THEN "paid" ELSE IF Failed(ts) THEN "failed" ELSE "pending"

\* the object passed to orders.update()
OrderUpdate(b, e) ==
    [payment_env                 |-> e,
     midtrans_transaction_status |-> TransactionStatusOf(b),
     midtrans_fraud_status       |-> TrimOrNull(b.fraud_status),
     midtrans_payment_type       |-> TrimOrNull(b.payment_type),
     midtrans_transaction_id     |-> TrimOrNull(b.transaction_id),
     status                      |-> OrderStatus(TransactionStatusOf(b))]

\* mutant: transaction ids are accumulated instead of overwritten
ApplyOrderUpdateAppend(row, u) ==
    [row EXCEPT !.payment_env = u.payment_env,
                !.midtrans_transaction_status = u.midtrans_transaction_status,
                !.midtrans_fraud_status = u.midtrans_fraud_status,
                !.midtrans_payment_type = u.midtrans_payment_type,
                !.midtrans_transaction_id =
                    IF @ = NULL \/ u.midtrans_transaction_id = NULL
                    THEN u.midtrans_transaction_id ELSE @ \o u.midtrans_transaction_id,
                !.status = u.status]

ApplyOrderUpdate(row, u) ==
    [row EXCEPT !.payment_env = u.payment_env,
                !.midtrans_transaction_status = u.midtrans_transaction_status,
                !.midtrans_fraud_status = u.midtrans_fraud_status,
                !.midtrans_payment_type = u.midtrans_payment_type,
                !.midtrans_transaction_id = u.midtrans_transaction_id,
                !.status = u.status]

\* orders.update(u).eq("id", id)
UpdateOrders(tbl, id, u) == {IF r.id = id THEN ApplyOrderUpdate(r, u) ELSE r : r \in tbl}

\* the row passed to user_packages.insert()
NewUserPackage(userId, pkg, years, t) ==
    [user_id         |-> userId,
     package_id      |-> pkg,
     duration_months |-> years * 12,
     started_at      |-> t,
     activated_at    |-> t,
     expires_at      |-> addMonthsIso(t, years * 12),
     status          |-> "active"]

\* profiles.update({...}).eq("id", userId)
UpdateProfiles(tbl, userId, t) ==
    {IF r.id = userId
     THEN [r EXCEPT !.account_status = "active", !.payment_active = TRUE, !.updated_at = t]
     ELSE r : r \in tbl}

\* mutant: the activation is not restricted to paid notifications
WantsActivationAnyStatus(b, o) == o.user_id # "null" /\ o.subscription_years > 0

\* whether the handler goes on to activate a subscription
WantsActivation(b, o) ==
    Paid(TransactionStatusOf(b)) /\ o.user_id # "null" /\ o.subscription_years > 0

-----------------------------------------------------------------------------
(* Responses                                                               *)

Response(status, kind) == [status |-> status, body |-> kind]

RespOptions          == Response(200, "ok")
RespInvalidPayload   == Response(400, "error: Invalid payload")
RespInvalidSignature == Response(401, "error: Invalid signature")
RespIgnored          == Response(200, "ok: true, ignored: true")
RespOk               == Response(200, "ok: true")
RespError            == Response(500, "error: message")
NoResp               == Response(0, "")

-----------------------------------------------------------------------------
(* Bounds and inputs of the Midtrans webhook                               *)

\* at most this many user_packages rows are inserted in one behaviour
MaxPackages == 2

\* the requests the platform serves concurrently
Slots == {1, 2}

KeyA == <<107, 97>>    \* "ka"
KeyB == <<107, 98>>    \* "kb"
KeyC == <<107, 99>>    \* "kc", a key that is stored nowhere

Date(y, m, d) == [year |-> y, month |-> m, day |-> d, tod |-> 0]
NoDate == Date(0, 0, 0)

Secret(name, ciphertext, iv) ==
    [provider |-> "midtrans", name |-> name, ciphertext |-> ciphertext, iv |-> iv,
     updated_at |-> NoDate]

\* contents of integration_secrets (the webhook never writes this table)
SecretsBoth   == {Secret("server_key_production", KeyA, "plain"),
                  Secret("server_key_sandbox", KeyB, "plain")}
SecretsPadded == {Secret("server_key_production", <<32>> \o KeyA \o <<10>>, "plain")}
SecretsCipher == {Secret("server_key_production", KeyA, "aes-gcm"),
                  Secret("server_key_sandbox", KeyB, "plain")}

SecretsSame   == {Secret("server_key_production", KeyA, "plain"),
                  Secret("server_key_sandbox", KeyA, "plain")}
SecretsBlank  == {Secret("server_key_production", <<32>>, "plain"),
                  Secret("server_key_sandbox", NULL, "plain")}

OrderRow(userId, years) ==
    [id |-> "o1", midtrans_order_id |-> <<65>>, user_id |-> userId,
     subscription_years |-> years, status |-> "pending", payment_env |-> "unset",
     midtrans_transaction_status |-> NULL, midtrans_fraud_status |-> NULL,
     midtrans_payment_type |-> NULL, midtrans_transaction_id |-> NULL]

PricingRow(pkg) == [id |-> TRUE, default_package_id |-> pkg]

\* the initial database contents explored
Scenarios ==
    {[secrets |-> SecretsBoth,   order |-> OrderRow("u1", 1),   pricing |-> {PricingRow("p1")}],
     [secrets |-> SecretsPadded, order |-> OrderRow("null", 1), pricing |-> {PricingRow("p1")}],
     [secrets |-> SecretsCipher, order |-> OrderRow("u1", 0),   pricing |-> {PricingRow("p1")}],
     [secrets |-> SecretsBoth,   order |-> OrderRow("u1", 2),   pricing |-> {PricingRow("null")}],
     [secrets |-> SecretsPadded, order |-> OrderRow("u1", 1),   pricing |-> {}]}

Tx(ts, fraud, ptype, tid) ==
    [transaction_status |-> ts, fraud_status |-> fraud, payment_type |-> ptype, transaction_id |-> tid]

TxSettlement == Tx(<<115,101,116,116,108,101,109,101,110,116>>, <<97,99,99,101,112,116>>, <<99,99>>, <<116,49>>)
TxCapture    == Tx(<<99,97,112,116,117,114,101>>, <<97,99,99,101,112,116>>, <<99,99>>, <<116,49>>)
TxDeny       == Tx(<<100,101,110,121>>, <<100,101,110,121>>, <<99,99>>, <<116,49>>)
TxCancel     == Tx(<<99,97,110,99,101,108>>, NULL, <<99,99>>, <<116,49>>)
TxExpire     == Tx(<<101,120,112,105,114,101>>, NULL, NULL, <<116,49>>)
TxPending    == Tx(<<112,101,110,100,105,110,103>>, NULL, <<99,99>>, <<116,49>>)
TxMissing    == Tx(NULL, NULL, NULL, NULL)
TxBlank      == Tx(<<32>>, <<>>, <<9, 32>>, <<>>)
TxPadded     == Tx(<<32,115,101,116,116,108,101,109,101,110,116,32>>, <<97,99,99,101,112,116,10>>,
                   <<32,99,99>>, <<116,49,32>>)

TxVariants == {TxSettlement, TxCapture, TxDeny, TxCancel, TxExpire, TxPending, TxMissing,
               TxBlank, TxPadded}

Body(oid, sc, ga, sig, tx) ==
    [order_id |-> oid, status_code |-> sc, gross_amount |-> ga, signature_key |-> sig,
     transaction_status |-> tx.transaction_status, fraud_status |-> tx.fraud_status,
     payment_type |-> tx.payment_type, transaction_id |-> tx.transaction_id]

Code200 == <<50, 48, 48>>   \* "200"
Amount1 == <<49>>           \* "1"
Amount2 == <<50>>           \* "2"
IdA     == <<65>>           \* "A", the midtrans_order_id of the stored order
IdZ     == <<90>>           \* "Z", no order

\* the signature Midtrans computes with `key`
Sign(oid, sc, ga, key) == sha512Hex(Trim(oid) \o Trim(sc) \o Trim(ga) \o key)

Signed(oid, tx, key) == Body(oid, Code200, Amount1, Sign(oid, Code200, Amount1, key), tx)

\* correctly formed notifications, signed with one of the keys Midtrans may hold
SignedBodies ==
    {Signed(IdA, tx, KeyA) : tx \in TxVariants}
    \cup {Signed(IdA, tx, KeyB) : tx \in {TxCapture, TxCancel, TxMissing}}
    \cup {Signed(IdZ, tx, KeyA) : tx \in {TxSettlement, TxExpire}}
    \cup {Signed(<<32>> \o IdA \o <<32>>, TxSettlement, KeyA),
          Body(IdA, <<32>> \o Code200, Amount1 \o <<32>>,
               <<10>> \o Sign(IdA, Code200, Amount1, KeyA) \o <<32>>, TxExpire)}

\* forged or tampered notifications
ForgedBodies ==
    {Signed(IdA, TxSettlement, KeyC),
     Body(IdA, Code200, Amount2, Sign(IdA, Code200, Amount1, KeyA), TxSettlement),
     Body(IdA, Code200, Amount1, Sign(IdZ, Code200, Amount1, KeyA), TxSettlement),
     Body(IdA, Code200, Amount1, IdA \o Code200 \o Amount1 \o KeyA, TxSettlement),
     Signed(IdA, TxSettlement, <<>>)}

Blanks == {NULL, <<>>, <<32>>}

\* notifications lacking one of the mandatory fields
DefectBodies ==
    LET b == Signed(IdA, TxSettlement, KeyA)
    IN  {[b EXCEPT !.order_id = x] : x \in Blanks}
        \cup {[b EXCEPT !.status_code = x] : x \in Blanks}
        \cup {[b EXCEPT !.gross_amount = x] : x \in Blanks}
        \cup {[b EXCEPT !.signature_key = x] : x \in Blanks}

Bodies == SignedBodies \cup ForgedBodies \cup DefectBodies

Request(method, parses, body) == [method |-> method, parses |-> parses, body |-> body]

Requests ==
    {Request("POST", TRUE, b) : b \in Bodies}
    \cup {Request("OPTIONS", FALSE, Body(NULL, NULL, NULL, NULL, TxMissing)),
          Request("POST", FALSE, Body(NULL, NULL, NULL, NULL, TxMissing))}

\* the notifications delivered while another request may be in progress
ConcurrentRequests ==
    {Request("POST", TRUE, Signed(IdA, tx, KeyA)) : tx \in {TxSettlement, TxExpire}}
    \cup {Request("POST", TRUE, Signed(IdA, TxCapture, KeyB))}

\* worker 1 serves any request, the other workers a redelivery
RequestsOf(s) == IF s = 1 THEN Requests ELSE ConcurrentRequests

\* whether the lookup of a server key may fail: explored on worker 1
KeyFaultsOf(s) == IF s = 1 THEN BOOLEAN ELSE {FALSE}

NoReq   == Request("none", FALSE, Body(NULL, NULL, NULL, NULL, TxMissing))
NoOrder == [id |-> "null", user_id |-> "null", subscription_years |-> 0]

-----------------------------------------------------------------------------
(* Midtrans webhook: the handler                                           *)

InFlight == {"lookup", "update", "pricing", "insert", "profile"}

\* requests in flight that may still insert a user_packages row
PendingInserts == {t \in Slots : pc[t] \in InFlight /\ Paid(TransactionStatusOf(req[t].body))}

\* `prodKey` and `sandKey` before line 82
NoKeys == [prodKey |-> <<>>, sandKey |-> <<>>]

\* lines 54-95: method, body, mandatory fields, signature.  The two key
\* lookups read rows the webhook never writes, so they are part of one step.
AuthOutcome(r, secrets, failProd, failSand) ==
    LET b       == r.body
        prodKey == KeyOrEmpty(secrets, "production", failProd)
        sandKey == KeyOrEmpty(secrets, "sandbox", failSand)
        isProd  == IsProd(b, prodKey)
        isSand  == IsSandbox(b, prodKey, sandKey)
        loaded  == [prodKey |-> prodKey, sandKey |-> sandKey]
        stop(rs) == [pc |-> "done", keys |-> NoKeys, env |-> "unset", resp |-> rs]
    IN  IF r.method = "OPTIONS" THEN stop(RespOptions)
        ELSE IF ~r.parses THEN stop(RespError)
        ELSE IF ~PayloadOk(b) THEN stop(RespInvalidPayload)
        ELSE IF ~isProd /\ ~isSand
             THEN [pc |-> "done", keys |-> loaded, env |-> "unset", resp |-> RespInvalidSignature]
        ELSE [pc |-> "lookup", keys |-> loaded,
              env |-> IF isProd THEN "production" ELSE "sandbox", resp |-> NoResp]

Receive(s) ==
    /\ pc[s] = "idle"
    /\ \E r \in RequestsOf(s), failProd \in KeyFaultsOf(s), failSand \in KeyFaultsOf(s) :
         LET out == AuthOutcome(r, integration_secrets, failProd, failSand)
         IN  /\ Paid(TransactionStatusOf(r.body))
                  => Len(user_packages) + Cardinality(PendingInserts) < MaxPackages
             /\ req' = [req EXCEPT ![s] = r]
             /\ pc' = [pc EXCEPT ![s] = out.pc]
             /\ serverKeys' = [serverKeys EXCEPT ![s] = out.keys]
             /\ env' = [env EXCEPT ![s] = out.env]
             /\ resp' = [resp EXCEPT ![s] = out.resp]
    /\ UNCHANGED <<dbVars, order, packageId, now, dbFailed, pkgOrder>>

\* lines 97-114: the order lookup
LookupOrder(s) ==
    /\ pc[s] = "lookup"
    /\ \E fail \in BOOLEAN :
         LET res == MaybeSingle({o \in orders : o.midtrans_order_id = OrderIdOf(req[s].body)}, fail)
         IN  IF res.error
             THEN /\ pc' = [pc EXCEPT ![s] = "done"]
                  /\ resp' = [resp EXCEPT ![s] = RespError]
                  /\ dbFailed' = [dbFailed EXCEPT ![s] = fail]
                  /\ order' = order
             ELSE IF ~res.found
             THEN /\ pc' = [pc EXCEPT ![s] = "done"]
                  /\ resp' = [resp EXCEPT ![s] = RespIgnored]
                  /\ UNCHANGED <<dbFailed, order>>
             ELSE /\ pc' = [pc EXCEPT ![s] = "update"]
                  /\ order' = [order EXCEPT ![s] =
                                 [id |-> TheRow(res).id, user_id |-> TheRow(res).user_id,
                                  subscription_years |-> TheRow(res).subscription_years]]
                  /\ UNCHANGED <<dbFailed, resp>>
    /\ UNCHANGED <<dbVars, req, serverKeys, env, packageId, now, pkgOrder>>

\* lines 116-134: orders.update(); its result is not inspected
UpdateOrder(s) ==
    /\ pc[s] = "update"
    /\ \E fail \in BOOLEAN :
         /\ orders' = IF fail THEN orders
                      ELSE UpdateOrders(orders, order[s].id, OrderUpdate(req[s].body, env[s]))
         /\ dbFailed' = [dbFailed EXCEPT ![s] = @ \/ fail]
    /\ IF WantsActivation(req[s].body, order[s])
       THEN /\ pc' = [pc EXCEPT ![s] = "pricing"]
            /\ resp' = resp
       ELSE /\ pc' = [pc EXCEPT ![s] = "done"]
            /\ resp' = [resp EXCEPT ![s] = RespOk]
    /\ UNCHANGED <<integration_secrets, domain_pricing_settings, user_packages, profiles, clock,
                   req, serverKeys, env, order, packageId, now, pkgOrder>>

\* lines 135-144: the pricing lookup, packageId and `now`
LookupPricing(s) ==
    /\ pc[s] = "pricing"
    /\ \E fail \in BOOLEAN :
         LET res == MaybeSingle({p \in domain_pricing_settings : p.id = TRUE}, fail)
             pkg == IF res.found THEN TheRow(res).default_package_id ELSE "null"
         IN  IF res.error
             THEN /\ pc' = [pc EXCEPT ![s] = "done"]
                  /\ resp' = [resp EXCEPT ![s] = RespError]
                  /\ dbFailed' = [dbFailed EXCEPT ![s] = @ \/ fail]
                  /\ UNCHANGED <<packageId, now>>
             ELSE IF pkg = "null"
             THEN /\ pc' = [pc EXCEPT ![s] = "done"]
                  /\ resp' = [resp EXCEPT ![s] = RespOk]
                  /\ UNCHANGED <<packageId, now, dbFailed>>
             ELSE /\ pc' = [pc EXCEPT ![s] = "insert"]
                  /\ packageId' = [packageId EXCEPT ![s] = pkg]
                  /\ now' = [now EXCEPT ![s] = clock]
                  /\ UNCHANGED <<resp, dbFailed>>
    /\ UNCHANGED <<dbVars, req, serverKeys, env, order, pkgOrder>>

\* lines 145-153: user_packages.insert(); its result is not inspected
InsertUserPackage(s) ==
    /\ pc[s] = "insert"
    /\ Len(user_packages) < MaxPackages
    /\ \E fail \in BOOLEAN :
         /\ user_packages' =
                IF fail THEN user_packages
                ELSE Append(user_packages,
                            NewUserPackage(order[s].user_id, packageId[s],
                                           order[s].subscription_years, now[s]))
         /\ pkgOrder' = IF fail THEN pkgOrder ELSE Append(pkgOrder, order[s].id)
         /\ dbFailed' = [dbFailed EXCEPT ![s] = @ \/ fail]
    /\ pc' = [pc EXCEPT ![s] = "profile"]
    /\ UNCHANGED <<integration_secrets, orders, domain_pricing_settings, profiles, clock,
                   req, serverKeys, env, order, packageId, now, resp>>

\* lines 155-165: profiles.update(); its result is not inspected; then 200
UpdateProfile(s) ==
    /\ pc[s] = "profile"
    /\ \E fail \in BOOLEAN :
         /\ profiles' = IF fail THEN profiles ELSE UpdateProfiles(profiles, order[s].user_id, now[s])
         /\ dbFailed' = [dbFailed EXCEPT ![s] = @ \/ fail]
    /\ pc' = [pc EXCEPT ![s] = "done"]
    /\ resp' = [resp EXCEPT ![s] = RespOk]
    /\ UNCHANGED <<integration_secrets, orders, domain_pricing_settings, user_packages, clock,
                   req, serverKeys, env, order, packageId, now, pkgOrder>>

\* the response has been sent; the platform reuses the worker
Close(s) ==
    /\ pc[s] = "done"
    /\ pc' = [pc EXCEPT ![s] = "idle"]
    /\ req' = [req EXCEPT ![s] = NoReq]
    /\ serverKeys' = [serverKeys EXCEPT ![s] = NoKeys]
    /\ env' = [env EXCEPT ![s] = "unset"]
    /\ order' = [order EXCEPT ![s] = NoOrder]
    /\ packageId' = [packageId EXCEPT ![s] = "null"]
    /\ now' = [now EXCEPT ![s] = NoDate]
    /\ resp' = [resp EXCEPT ![s] = NoResp]
    /\ dbFailed' = [dbFailed EXCEPT ![s] = FALSE]
    /\ UNCHANGED <<dbVars, pkgOrder>>

InitWebhookLocals ==
    /\ pc = [s \in Slots |-> "idle"]
    /\ req = [s \in Slots |-> NoReq]
    /\ serverKeys = [s \in Slots |-> NoKeys]
    /\ env = [s \in Slots |-> "unset"]
    /\ order = [s \in Slots |-> NoOrder]
    /\ packageId = [s \in Slots |-> "null"]
    /\ now = [s \in Slots |-> NoDate]
    /\ resp = [s \in Slots |-> NoResp]
    /\ dbFailed = [s \in Slots |-> FALSE]
    /\ pkgOrder = <<>>

-----------------------------------------------------------------------------
(* useDomainSuggestions                                                    *)

\* at most this many timers are started in one behaviour
MaxTimers == 3

DefaultDebounceMs == 450

HookQueries == {NULL, <<>>, <<32>>, <<97>>, <<32, 97>>, <<98>>}   \* null, "", " ", "a", " a", "b"

HookProps == [query : HookQueries, enabled : BOOLEAN, debounceMs : {DefaultDebounceMs, 0}]

InitialState == [loading |-> FALSE, error |-> NULL, items |-> <<>>]

\* mutant: the pending timer is not cleared
KeepTimers(timers, ref) == timers

\* if (timer.current) window.clearTimeout(timer.current)
ClearTimer(timers, ref) == IF ref # 0 THEN {t \in timers : t.id # ref} ELSE timers

\* the effect's cleanup, when the last effect returned one
RunCleanup(timers, ref, registered) == IF registered THEN ClearTimer(timers, ref) ELSE timers

\* the body of the effect (lines 24-60) run with props p
EffectOutcome(p, st, ref, timers, nextId) ==
    LET q == TrimStr(p.query)
    IN  IF ~p.enabled
        THEN [state |-> st, ref |-> ref, timers |-> timers, nextId |-> nextId, cleanup |-> FALSE]
        ELSE IF q = <<>>
        THEN [state |-> InitialState, ref |-> ref, timers |-> timers, nextId |-> nextId,
              cleanup |-> FALSE]
        ELSE [state |-> st, ref |-> nextId,
              timers |-> ClearTimer(timers, ref) \cup {[id |-> nextId, q |-> q]},
              nextId |-> nextId + 1, cleanup |-> TRUE]

ApplyEffect(p, timers) ==
    LET out == EffectOutcome(p, hState, hTimerRef, timers, hNextId)
    IN  /\ hProps' = p
        /\ hState' = out.state
        /\ hTimerRef' = out.ref
        /\ hTimers' = out.timers
        /\ hNextId' = out.nextId
        /\ hCleanup' = out.cleanup

\* first render
Mount ==
    /\ hPhase = "init"
    /\ \E p \in HookProps : ApplyEffect(p, hTimers)
    /\ hPhase' = "mounted"
    /\ UNCHANGED <<hCalls, hInvoked>>

\* a render with a changed dependency (debounceMs, enabled, query): the
\* previous effect's cleanup runs, then the effect
Rerender ==
    /\ hPhase = "mounted"
    /\ hNextId <= MaxTimers
    /\ \E p \in HookProps :
         /\ p # hProps
         /\ ApplyEffect(p, RunCleanup(hTimers, hTimerRef, hCleanup))
    /\ UNCHANGED <<hPhase, hCalls, hInvoked>>

Unmount ==
    /\ hPhase = "mounted"
    /\ hPhase' = "unmounted"
    /\ hTimers' = RunCleanup(hTimers, hTimerRef, hCleanup)
    /\ hCleanup' = FALSE
    /\ UNCHANGED <<hProps, hState, hTimerRef, hNextId, hCalls, hInvoked>>

\* React drops state updates of an unmounted component
SetState(st) == hState' = IF hPhase = "mounted" THEN st ELSE hState

\* debounceMs elapsed for a pending timer: lines 35-39, up to the await
TimerFires ==
    \E t \in hTimers :
        /\ hTimers' = hTimers \ {t}
        /\ SetState([hState EXCEPT !.loading = TRUE, !.error = NULL])
        /\ hCalls' = hCalls \cup {t}
        /\ hInvoked' = hInvoked \cup
              {[id |-> t.id, q |-> t.q,
                current |-> hPhase = "mounted" /\ hProps.enabled /\ TrimStr(hProps.query) = t.q]}
        /\ UNCHANGED <<hPhase, hProps, hTimerRef, hCleanup, hNextId>>

Item(domain, status, price, currency) ==
    [domain |-> domain, status |-> status, price_usd |-> price, currency |-> currency]

\* a number, or the null that replaces what is not a number
Num(n) == [number |-> TRUE, value |-> n]
NotNum == [number |-> FALSE, value |-> 0]

DotCom == <<46, 99, 111, 109>>   \* ".com"
Usd    == <<85, 83, 68>>         \* "USD"

\* what 'domainr-check' may answer for query q: [error, message, isArray, items]
Answers(q) ==
    {[error |-> TRUE,  message |-> NULL, isArray |-> FALSE, items |-> <<>>],
     [error |-> TRUE,  message |-> <<98, 111, 111, 109>>, isArray |-> FALSE, items |-> <<>>],
     [error |-> FALSE, message |-> NULL, isArray |-> FALSE, items |-> <<>>],
     [error |-> FALSE, message |-> NULL, isArray |-> TRUE,
      items |-> <<Item(q \o DotCom, "available", Num(12), Usd),
                  Item(NULL, "", NotNum, NULL)>>]}

DefaultError ==   \* "Failed to fetch domain suggestions"
    <<70,97,105,108,101,100,32,116,111,32,102,101,116,99,104,32,100,111,109,97,105,110,32,
      115,117,103,103,101,115,116,105,111,110,115>>

\* lines 46-51
MapItem(it) ==
    Item(Str(it.domain),
         IF it.status = "" THEN "unknown" ELSE it.status,
         IF it.price_usd.number THEN it.price_usd ELSE NotNum,
         IF it.currency = NULL \/ it.currency = <<>> THEN NULL ELSE it.currency)

\* lines 40-55: the state set when the invocation answers
StateAfter(ans) ==
    IF ans.error
    THEN [loading |-> FALSE,
          error |-> IF ans.message = NULL THEN DefaultError ELSE ans.message,
          items |-> <<>>]
    ELSE [loading |-> FALSE, error |-> NULL,
          items |-> IF ans.isArray THEN [i \in DOMAIN ans.items |-> MapItem(ans.items[i])]
                    ELSE <<>>]

\* the invocation of 'domainr-check' answers
CallAnswers ==
    \E c \in hCalls : \E ans \in Answers(c.q) :
        /\ hCalls' = hCalls \ {c}
        /\ SetState(StateAfter(ans))
        /\ UNCHANGED <<hPhase, hProps, hTimerRef, hCleanup, hTimers, hNextId, hInvoked>>

-----------------------------------------------------------------------------
(* super-admin-xendit-secret                                               *)

MinKeyLength == 8
MaxKeyLength == 256

Bearer    == <<66,101,97,114,101,114,32>>                        \* "Bearer "
XndPrefix == <<120,110,100,95>>                                  \* "xnd_"
XndPublic == <<120,110,100,95,112,117,98,108,105,99,95>>         \* "xnd_public_"

Rep(c, n) == [i \in 1..n |-> c]

ValidationError(msg) == [ok |-> FALSE, error |-> msg, apiKey |-> <<>>]

\* mutant: the check against public keys is left out
validateXenditSecretKeyNoPublicCheck(input) ==
    LET apiKey == TrimStr(input)
    IN  IF apiKey = <<>> THEN ValidationError("api_key is required")
        ELSE IF (\E i \in 1..Len(apiKey) : IsSpace(apiKey[i]))
                \/ Len(apiKey) < MinKeyLength \/ Len(apiKey) > MaxKeyLength
             THEN ValidationError("Invalid api_key format")
        ELSE IF ~StartsWith(apiKey, XndPrefix)
             THEN ValidationError("Invalid Xendit key. Use a key that starts with 'xnd_'")
        ELSE [ok |-> TRUE, error |-> "", apiKey |-> apiKey]

\* validateXenditSecretKey(input)
validateXenditSecretKey(input) ==
    LET apiKey == TrimStr(input)
    IN  IF apiKey = <<>> THEN ValidationError("api_key is required")
        ELSE IF (\E i \in 1..Len(apiKey) : IsSpace(apiKey[i]))
                \/ Len(apiKey) < MinKeyLength \/ Len(apiKey) > MaxKeyLength
             THEN ValidationError("Invalid api_key format")
        ELSE IF ~StartsWith(apiKey, XndPrefix)
             THEN ValidationError("Invalid Xendit key. Use a key that starts with 'xnd_'")
        ELSE IF StartsWith(apiKey, XndPublic)
             THEN ValidationError("Invalid Xendit key for server-side usage.")
        ELSE [ok |-> TRUE, error |-> "", apiKey |-> apiKey]

\* mutant: any user that has a role row is let through
requireSuperAdminAnyRole(roles, userId, fail) ==
    LET res == MaybeSingle({r \in roles : r.user_id = userId}, fail)
    IN  IF res.error THEN [ok |-> FALSE, status |-> 500, error |-> "error: message"]
        ELSE IF ~res.found
             THEN [ok |-> FALSE, status |-> 403, error |-> "error: Forbidden"]
        ELSE [ok |-> TRUE, status |-> 200, error |-> ""]

\* requireSuperAdmin(admin, userId)
requireSuperAdmin(roles, userId, fail) ==
    LET res  == MaybeSingle({r \in roles : r.user_id = userId}, fail)
        role == IF res.found THEN TheRow(res).role ELSE ""
    IN  IF res.error THEN [ok |-> FALSE, status |-> 500, error |-> "error: message"]
        ELSE IF role # "super_admin"
             THEN [ok |-> FALSE, status |-> 403, error |-> "error: Forbidden"]
        ELSE [ok |-> TRUE, status |-> 200, error |-> ""]

TokAdmin == <<116, 97>>    \* "ta": the token of user admin
TokUser  == <<116, 117>>   \* "tu": the token of user member
TokGuest == <<116, 103>>   \* "tg": the token of user guest, who has no role row
TokDup   == <<116, 100>>   \* "td": the token of user dup, who has two role rows
TokAnon  == <<116, 110>>   \* "tn": a token whose claims carry no subject
TokBad   == <<116, 98>>    \* "tb": a token that does not verify

\* authed.auth.getClaims(token): the auth service's verdict on a token
GetClaims(token) ==
    IF token = TokAdmin THEN [error |-> FALSE, sub |-> "admin"]
    ELSE IF token = TokUser THEN [error |-> FALSE, sub |-> "member"]
    ELSE IF token = TokGuest THEN [error |-> FALSE, sub |-> "guest"]
    ELSE IF token = TokDup THEN [error |-> FALSE, sub |-> "dup"]
    ELSE IF token = TokAnon THEN [error |-> FALSE, sub |-> ""]
    ELSE [error |-> TRUE, sub |-> ""]

\* authHeader.startsWith("Bearer ") ? authHeader.slice(7) : null
TokenOf(authorization) ==
    LET h == Str(authorization)
    IN  IF StartsWith(h, Bearer) THEN SubSeq(h, Len(Bearer) + 1, Len(h)) ELSE NULL

IsXenditKeyRow(r) == r.provider = "xendit" /\ r.name = "api_key"

\* .upsert({provider, name, ciphertext, iv}, {onConflict: "provider,name"})
UpsertXenditKey(secrets, apiKey, t) ==
    {r \in secrets : ~IsXenditKeyRow(r)}
    \cup {[provider |-> "xendit", name |-> "api_key", ciphertext |-> apiKey, iv |-> "plain",
           updated_at |-> t]}

\* .delete().eq("provider", "xendit").eq("name", "api_key")
DeleteXenditKey(secrets) == {r \in secrets : ~IsXenditKeyRow(r)}

XResponse(status, body) ==
    [status |-> status, body |-> body, configured |-> FALSE, updated_at |-> NoDate]

XUnauthorized == XResponse(401, "error: Unauthorized")
XError        == XResponse(500, "error: message")
XOk           == XResponse(200, "ok: true")

\* the handler (lines 56-166) serving request r
XenditOutcome(r, secrets, roles, t) ==
    LET token  == TokenOf(r.authorization)
        claims == GetClaims(token)
        authz  == requireSuperAdmin(roles, claims.sub, r.failRole)
        valid  == validateXenditSecretKey(r.api_key)
        res    == MaybeSingle({x \in secrets : IsXenditKeyRow(x)}, r.failDb)
        stop(rs)   == [resp |-> rs, secrets |-> secrets, touched |-> "none"]
    IN  IF r.method = "OPTIONS" THEN stop(XResponse(200, "ok"))
        ELSE IF token = NULL \/ token = <<>> THEN stop(XUnauthorized)
        ELSE IF claims.error \/ claims.sub = "" THEN stop(XUnauthorized)
        ELSE IF ~authz.ok THEN stop(XResponse(authz.status, authz.error))
        ELSE IF ~r.parses THEN stop(XError)
        ELSE IF r.action = "get"
        THEN [resp |-> IF res.error THEN XError
                       ELSE [status |-> 200, body |-> "configured", configured |-> res.found,
                             updated_at |-> IF res.found THEN TheRow(res).updated_at ELSE NoDate],
              secrets |-> secrets, touched |-> "read"]
        ELSE IF r.action = "set"
        THEN IF ~valid.ok THEN stop(XResponse(400, valid.error))
             ELSE [resp |-> IF r.failDb THEN XError ELSE XOk,
                   secrets |-> IF r.failDb THEN secrets ELSE UpsertXenditKey(secrets, valid.apiKey, t),
                   touched |-> "upsert"]
        ELSE IF r.action = "clear"
        THEN [resp |-> IF r.failDb THEN XError ELSE XOk,
              secrets |-> IF r.failDb THEN secrets ELSE DeleteXenditKey(secrets),
              touched |-> "delete"]
        ELSE stop(XResponse(400, "error: Unknown action"))

GoodKey == XndPrefix \o <<97, 98, 99, 100>>     \* "xnd_abcd"

\* the api_key values tried
ApiKeys ==
    {NULL, <<>>, <<32, 9>>,
     GoodKey,
     <<32>> \o GoodKey \o <<10>>,
     XndPrefix \o <<97, 98, 99>>,
     XndPrefix \o <<97, 32, 99, 100>>,
     <<97, 98, 99, 95, 97, 98, 99, 100>>,
     XndPublic \o <<97>>,
     XndPrefix \o Rep(97, MaxKeyLength - 4),
     XndPrefix \o Rep(97, MaxKeyLength - 3)}

Authorizations ==
    {NULL, <<>>, Bearer, <<66, 97, 115, 105, 99, 32>> \o TokAdmin,
     <<98,101,97,114,101,114,32>> \o TokAdmin}
    \cup {Bearer \o t : t \in {TokAdmin, TokUser, TokGuest, TokDup, TokAnon, TokBad}}

\* a request, with the faults met while serving it (failRole: the user_roles
\* lookup fails; failDb: the integration_secrets call fails)
XenditRequests ==
    [method : {"POST"}, authorization : Authorizations, parses : {TRUE},
     action : {"get", "clear", "other"}, api_key : {NULL}, failRole : BOOLEAN, failDb : BOOLEAN]
    \cup [method : {"POST"}, authorization : Authorizations, parses : {TRUE},
          action : {"set"}, api_key : ApiKeys, failRole : BOOLEAN, failDb : BOOLEAN]
    \cup [method : {"POST", "OPTIONS"}, authorization : Authorizations, parses : {FALSE},
          action : {""}, api_key : {NULL}, failRole : {FALSE}, failDb : {FALSE}]

XenditServe ==
    \E r \in XenditRequests :
        LET out == XenditOutcome(r, integration_secrets, user_roles, clock)
        IN  /\ xReq' = r
            /\ xResp' = out.resp
            /\ xTouched' = out.touched
            /\ integration_secrets' = out.secrets
            /\ UNCHANGED <<orders, domain_pricing_settings, user_packages, profiles, clock,
                           user_roles>>

-----------------------------------------------------------------------------
(* Initial states and specifications                                       *)

\* the hook is not rendered
InitHookIdle ==
    /\ hPhase = "init"
    /\ hProps = [query |-> NULL, enabled |-> FALSE, debounceMs |-> 0]
    /\ hState = InitialState
    /\ hTimerRef = 0
    /\ hCleanup = FALSE
    /\ hTimers = {}
    /\ hNextId = 1
    /\ hCalls = {}
    /\ hInvoked = {}

NoXenditRequest ==
    [method |-> "none", authorization |-> NULL, parses |-> FALSE, action |-> "", api_key |-> NULL,
     failRole |-> FALSE, failDb |-> FALSE]

NoXenditResponse == XResponse(0, "")

\* no admin request has been served
InitXenditIdle ==
    /\ user_roles = {}
    /\ xReq = NoXenditRequest
    /\ xResp = NoXenditResponse
    /\ xTouched = "none"

InitWebhook ==
    /\ \E sc \in Scenarios :
         /\ integration_secrets = sc.secrets
         /\ orders = {sc.order}
         /\ domain_pricing_settings = sc.pricing
    /\ user_packages = <<>>
    /\ profiles = {[id |-> "u1", account_status |-> "pending", payment_active |-> FALSE,
                    updated_at |-> NoDate]}
    /\ clock = Date(2024, 2, 29)
    /\ InitWebhookLocals
    /\ InitHookIdle
    /\ InitXenditIdle

InitHook ==
    /\ InitHookIdle
    /\ InitXenditIdle
    /\ InitWebhookLocals
    /\ integration_secrets = {}
    /\ orders = {}
    /\ domain_pricing_settings = {}
    /\ user_packages = <<>>
    /\ profiles = {}
    /\ clock = Date(2024, 2, 29)

NextHook ==
    /\ \/ Mount
       \/ Rerender
       \/ Unmount
       \/ TimerFires
       \/ CallAnswers
    /\ UNCHANGED <<dbVars, whVars, xenVars>>

SpecHook == InitHook /\ [][NextHook]_vars

Roles ==
    {[user_id |-> "admin", role |-> "super_admin"],
     [user_id |-> "member", role |-> "admin"],
     [user_id |-> "dup", role |-> "super_admin"],
     [user_id |-> "dup", role |-> "admin"]}

InitXendit ==
    /\ integration_secrets \in
          {SecretsBoth, UpsertXenditKey(SecretsBoth, GoodKey, Date(2023, 1, 31))}
    /\ user_roles = Roles
    /\ xReq = NoXenditRequest
    /\ xResp = NoXenditResponse
    /\ xTouched = "none"
    /\ InitHookIdle
    /\ InitWebhookLocals
    /\ orders = {}
    /\ domain_pricing_settings = {}
    /\ user_packages = <<>>
    /\ profiles = {}
    /\ clock = Date(2024, 2, 29)

NextXendit == XenditServe /\ UNCHANGED <<whVars, hookVars>>

SpecXendit == InitXendit /\ [][NextXendit]_vars

NextWebhook ==
    /\ \E s \in Slots :
        \/ Receive(s)
        \/ LookupOrder(s)
        \/ UpdateOrder(s)
        \/ LookupPricing(s)
        \/ InsertUserPackage(s)
        \/ UpdateProfile(s)
        \/ Close(s)
    /\ UNCHANGED <<xenVars, hookVars>>

SpecWebhook == InitWebhook /\ [][NextWebhook]_vars

\* processing times and subscription lengths explored for the expiry date
ExpiryCases ==
    {[clock |-> Date(2024, 2, 29),  years |-> 1],
     [clock |-> Date(2024, 2, 29),  years |-> 4],
     [clock |-> Date(2023, 12, 31), years |-> 1],
     [clock |-> Date(2025, 1, 31),  years |-> 3]}

\* the webhook serving orders of a signed-in user at several processing times
InitExpiry ==
    /\ \E c \in ExpiryCases :
         /\ clock = c.clock
         /\ orders = {OrderRow("u1", c.years)}
    /\ integration_secrets = SecretsPadded
    /\ domain_pricing_settings = {PricingRow("p1")}
    /\ user_packages = <<>>
    /\ profiles = {[id |-> "u1", account_status |-> "pending", payment_active |-> FALSE,
                    updated_at |-> NoDate]}
    /\ InitWebhookLocals
    /\ InitHookIdle
    /\ InitXenditIdle

SpecExpiry == InitExpiry /\ [][NextWebhook]_vars

\* the contents of integration_secrets explored for the payment environment
KeyStores ==
    {[secrets |-> SecretsBoth,   order |-> OrderRow("null", 1)],
     [secrets |-> SecretsCipher, order |-> OrderRow("u1", 1)],
     [secrets |-> SecretsSame,   order |-> OrderRow("null", 1)],
     [secrets |-> SecretsBlank,  order |-> OrderRow("u1", 1)],
     [secrets |-> {},            order |-> OrderRow("u1", 1)]}

\* the webhook with the server keys stored in several ways
InitKeys ==
    /\ \E k \in KeyStores :
         /\ integration_secrets = k.secrets
         /\ orders = {k.order}
    /\ domain_pricing_settings = {PricingRow("p1")}
    /\ user_packages = <<>>
    /\ profiles = {[id |-> "u1", account_status |-> "pending", payment_active |-> FALSE,
                    updated_at |-> NoDate]}
    /\ clock = Date(2024, 2, 29)
    /\ InitWebhookLocals
    /\ InitHookIdle
    /\ InitXenditIdle

SpecKeys == InitKeys /\ [][NextWebhook]_vars

-----------------------------------------------------------------------------
(* Properties of the Midtrans webhook                                      *)

MandatoryFields == {"order_id", "status_code", "gross_amount", "signature_key"}

HasAllFields(b) == \A f \in MandatoryFields : Trim(Str(b[f])) # <<>>

\* the server keys stored for Midtrans, production and sandbox
StoredServerKeys ==
    {Trim(Str(r.ciphertext)) :
        r \in {x \in integration_secrets :
                 /\ x.provider = "midtrans"
                 /\ x.name \in {"server_key_production", "server_key_sandbox"}}}

SignedWith(b, key) ==
    Trim(Str(b.signature_key))
        = sha512Hex(Trim(Str(b.order_id)) \o Trim(Str(b.status_code)) \o Trim(Str(b.gross_amount)) \o key)

Authentic(b) == HasAllFields(b) /\ \E k \in StoredServerKeys : SignedWith(b, k)

StoreChanged == orders' # orders \/ user_packages' # user_packages \/ profiles' # profiles

C1_WriteGuard ==
    StoreChanged => \E s \in Slots : pc[s] \in InFlight /\ pc'[s] # pc[s] /\ Authentic(req[s].body)

C1_Rejected ==
    \A s \in Slots :
        (pc[s] = "done" /\ req[s].method = "POST" /\ req[s].parses)
        => /\ ~HasAllFields(req[s].body) => resp[s] = RespInvalidPayload
           /\ (HasAllFields(req[s].body) /\ ~Authentic(req[s].body)) => resp[s] = RespInvalidSignature

C1_RejectFrame ==
    \A s \in Slots :
        (pc[s] = "idle" /\ pc'[s] = "done" /\ resp'[s].status \in {400, 401})
        => UNCHANGED <<orders, user_packages, profiles>>

\* C1: orders, user_packages and profiles are written only on behalf of a
\* request that carries the four mandatory fields (non-empty after trim) and a
\* signature_key equal to SHA-512(order_id + status_code + gross_amount + key)
\* for a stored server key; a request lacking a field is answered 400 'Invalid
\* payload', one whose signature matches no stored key 401 'Invalid
\* signature', and neither changes the store.
C1_SignatureGate == []C1_Rejected /\ [][C1_WriteGuard /\ C1_RejectFrame]_vars

\* a forged notification was refused while the store had already been written
C1_Witness ==
    /\ pc[1] = "done" /\ resp[1] = RespInvalidSignature /\ HasAllFields(req[1].body)
    /\ Len(user_packages) > 0

\* C2 (as claimed): a request during which a database call failed (order
\* lookup, order update, pricing lookup, user_packages insert, profiles
\* update) is answered 500, never 200.
C2_FailuresYield500 ==
    \A s \in Slots : (pc[s] = "done" /\ dbFailed[s]) => resp[s].status = 500

NoOrderFor(b) == \A o \in orders : o.midtrans_order_id # Trim(Str(b.order_id))

\* C3: a verified notification whose order_id matches no order row is
\* answered 200 {ok: true, ignored: true} (500 when the lookup itself fails)
\* and the step changes none of orders, user_packages, profiles.
C3_UnknownOrderIgnored ==
    [][\A s \in Slots :
          (pc[s] = "lookup" /\ pc'[s] # "lookup" /\ Authentic(req[s].body) /\ NoOrderFor(req[s].body))
          => /\ pc'[s] = "done"
             /\ resp'[s] = IF dbFailed'[s] THEN RespError ELSE RespIgnored
             /\ UNCHANGED <<orders, user_packages, profiles>>]_vars

C3_Witness ==
    \E s \in Slots :
        /\ pc[s] = "done" /\ resp[s] = RespIgnored
        /\ Authentic(req[s].body) /\ NoOrderFor(req[s].body)

Envs == {"production", "sandbox"}

\* the environments whose stored server key signs notification b
SignedEnvs(b) ==
    {e \in Envs :
        \E r \in integration_secrets :
            /\ r.provider = "midtrans"
            /\ r.name = (IF e = "production" THEN "server_key_production" ELSE "server_key_sandbox")
            /\ SignedWith(b, Trim(Str(r.ciphertext)))}

\* the order row is as a delivery of notification b leaves it
Reflects(o, b) ==
    /\ o.payment_env \in SignedEnvs(b)
    /\ o.midtrans_transaction_status = TrimOrNull(b.transaction_status)
    /\ o.midtrans_fraud_status = TrimOrNull(b.fraud_status)
    /\ o.midtrans_payment_type = TrimOrNull(b.payment_type)
    /\ o.midtrans_transaction_id = TrimOrNull(b.transaction_id)
    /\ o.status = OrderStatus(TrimOrNull(b.transaction_status))

PaidWords   == {<<115,101,116,116,108,101,109,101,110,116>>, <<99,97,112,116,117,114,101>>}
FailedWords == {<<100,101,110,121>>, <<99,97,110,99,101,108>>, <<101,120,112,105,114,101>>}

StatusMatches(status, ts) ==
    /\ status \in {"paid", "failed", "pending"}
    /\ status = "paid" <=> ts \in PaidWords
    /\ status = "failed" <=> ts \in FailedWords
    /\ status = "pending" <=> ts \notin (PaidWords \cup FailedWords)

C5_RowConsistent ==
    \A o \in orders :
        o.payment_env \in Envs => StatusMatches(o.status, o.midtrans_transaction_status)

C5_UpdateWrites ==
    \A s \in Slots :
        (pc[s] = "update" /\ pc'[s] # "update" /\ dbFailed'[s] = dbFailed[s])
        => \A o \in orders' :
              o.id = order[s].id
              => /\ o.midtrans_transaction_status = TrimOrNull(req[s].body.transaction_status)
                 /\ StatusMatches(o.status, TrimOrNull(req[s].body.transaction_status))

\* C5: an applied order update leaves status 'paid' iff the notification's
\* transaction_status is settlement or capture, 'failed' iff it is deny,
\* cancel or expire, and 'pending' otherwise (missing or empty included); the
\* stored status always agrees with the stored transaction status.
C5_StatusReflectsOutcome == []C5_RowConsistent /\ [][C5_UpdateWrites]_vars

C5_Witness ==
    \E o \in orders :
        /\ o.status = "pending" /\ o.payment_env \in Envs
        /\ o.midtrans_transaction_status = NULL
        /\ \E s \in Slots : pc[s] = "done" /\ resp[s] = RespOk /\ ~dbFailed[s]
                            /\ TrimOrNull(req[s].body.transaction_status) = NULL

\* the condition under which the claim allows an entitlement to be granted
Entitled(s) ==
    /\ TrimOrNull(req[s].body.transaction_status) \in PaidWords
    /\ \E o \in orders : /\ o.id = order[s].id
                         /\ o.midtrans_order_id = Trim(Str(req[s].body.order_id))
                         /\ o.user_id # "null" /\ o.user_id = order[s].user_id
                         /\ o.subscription_years > 0
    /\ \E p \in domain_pricing_settings : p.default_package_id # "null"

C6_Grant(s) ==
    /\ user_packages' # user_packages
         => /\ Len(user_packages') = Len(user_packages) + 1
            /\ SubSeq(user_packages', 1, Len(user_packages)) = user_packages
            /\ user_packages'[Len(user_packages')].user_id = order[s].user_id
            /\ profiles' = profiles
    /\ profiles' # profiles
         => \A p \in profiles' :
               p \notin profiles
               => p.id = order[s].user_id /\ p.account_status = "active" /\ p.payment_active

\* C6: a user_packages row is inserted, and a profile set active /
\* payment_active, only by a request whose transaction_status is settlement or
\* capture, for an order with a user_id and subscription_years > 0, while
\* domain_pricing_settings has a default_package_id.
C6_EntitlementOnlyWhenPaid ==
    [][(user_packages' # user_packages \/ profiles' # profiles)
         => \E s \in Slots : pc'[s] # pc[s] /\ Entitled(s) /\ C6_Grant(s)]_vars

C6_Witness ==
    /\ Len(user_packages) > 0
    /\ \E p \in profiles : p.account_status = "active" /\ p.payment_active

\* C9 (as claimed): at most one user_packages row is inserted per order.
C9_ActivatedAtMostOnce ==
    \A i \in DOMAIN pkgOrder : \A j \in DOMAIN pkgOrder : pkgOrder[i] = pkgOrder[j] => i = j

C10_PaidStaysPaid ==
    \A o \in orders : \A n \in orders' : (o.id = n.id /\ o.status = "paid") => n.status = "paid"

\* C10 (as claimed): no notification takes a paid order back to pending or
\* failed (so that an order with an active user_packages row stays paid).
C10_PaidIsFinal == [][C10_PaidStaysPaid]_vars

\* the server keys of environment e that the store holds in the clear
StoredPlainKeys(e) ==
    {Trim(Str(r.ciphertext)) :
        r \in {x \in integration_secrets :
                 /\ x.provider = "midtrans"
                 /\ x.name = (IF e = "production" THEN "server_key_production"
                              ELSE "server_key_sandbox")
                 /\ x.iv = "plain"}} \ {<<>>}

\* a key in use is the stored plain key of its environment, or absent
C14_KeysLoaded ==
    \A s \in Slots :
        /\ serverKeys[s].prodKey \in {<<>>} \cup StoredPlainKeys("production")
        /\ serverKeys[s].sandKey \in {<<>>} \cup StoredPlainKeys("sandbox")

VerifiesProd(s) ==
    serverKeys[s].prodKey # <<>> /\ SignedWith(req[s].body, serverKeys[s].prodKey)

VerifiesSand(s) ==
    serverKeys[s].sandKey # <<>> /\ SignedWith(req[s].body, serverKeys[s].sandKey)

C14_EnvFollows ==
    \A s \in Slots :
        (pc[s] # "idle" /\ req[s].method = "POST" /\ req[s].parses /\ HasAllFields(req[s].body))
        => /\ env[s] = "production" <=> VerifiesProd(s)
           /\ env[s] = "sandbox" <=> (~VerifiesProd(s) /\ VerifiesSand(s))
           /\ (~VerifiesProd(s) /\ ~VerifiesSand(s))
                <=> (pc[s] = "done" /\ resp[s] = RespInvalidSignature)

C14_EnvRecorded ==
    \A s \in Slots :
        (pc[s] = "update" /\ pc'[s] # "update")
        => \A o \in orders' :
              (o \notin orders \/ (o.id = order[s].id /\ dbFailed'[s] = dbFailed[s]))
              => o.payment_env = env[s]

\* C14: the environment recorded on an order is 'production' iff the
\* signature verifies against the loaded, non-empty production key, and
\* 'sandbox' iff it does not and verifies against the loaded, non-empty
\* sandbox key; a key that is missing, blank, not loaded or stored with an
\* iv other than 'plain' is absent, and a notification verifying against no
\* loaded key is answered 401.
C14_ProductionFirst == []C14_KeysLoaded /\ []C14_EnvFollows /\ [][C14_EnvRecorded]_vars

\* with the same key stored for both environments an order was recorded as
\* production, and a redelivery during which the production key failed to
\* load is being processed as sandbox
C14_Witness ==
    /\ integration_secrets = SecretsSame
    /\ \E o \in orders : o.payment_env = "production"
    /\ pc[1] = "update" /\ env[1] = "sandbox" /\ serverKeys[1].prodKey = <<>>

\* date a is strictly later than date b
Later(a, b) ==
    \/ a.year > b.year
    \/ a.year = b.year /\ a.month > b.month
    \/ a.year = b.year /\ a.month = b.month /\ a.day > b.day
    \/ a.year = b.year /\ a.month = b.month /\ a.day = b.day /\ a.tod > b.tod

\* the subscription_years of the order the i-th user_packages row was inserted for
YearsOf(i) == (CHOOSE o \in orders : o.id = pkgOrder[i]).subscription_years

\* the fields of an inserted row other than the expiry's calendar day
C12_RowBasics(i) ==
    LET r == user_packages[i]
    IN  /\ r.status = "active"
        /\ r.started_at = clock /\ r.activated_at = r.started_at
        /\ r.duration_months = 12 * YearsOf(i)
        /\ Later(r.expires_at, r.started_at)
        /\ r.expires_at.tod = r.started_at.tod

\* the same month and day of month, n years later
SameDayYearsLater(d, n) == [d EXCEPT !.year = @ + n]

\* C12 (as claimed): every inserted user_packages row is active, started and
\* activated at the processing time, lasts 12 months per subscription year,
\* and expires on the month, day of month and time of day of its start,
\* subscription_years years later.
C12_ExpiresSameDay ==
    \A i \in DOMAIN user_packages :
        /\ C12_RowBasics(i)
        /\ user_packages[i].expires_at = SameDayYearsLater(user_packages[i].started_at, YearsOf(i))

\* C12 (amended): as above, except that a row started on 29 February expires
\* on 1 March when the year subscription_years later is not a leap year.
C12_ExpiryDate ==
    \A i \in DOMAIN user_packages :
        LET r == user_packages[i]
            y == r.started_at.year + YearsOf(i)
        IN  /\ C12_RowBasics(i)
            /\ r.expires_at =
                  IF r.started_at.month = 2 /\ r.started_at.day = 29 /\ ~IsLeap(y)
                  THEN [r.started_at EXCEPT !.year = y, !.month = 3, !.day = 1]
                  ELSE SameDayYearsLater(r.started_at, YearsOf(i))

\* a one-year subscription was activated on 29 February 2024
C12_Witness ==
    \E i \in DOMAIN user_packages :
        /\ user_packages[i].started_at = Date(2024, 2, 29)
        /\ user_packages[i].duration_months = 12
        /\ user_packages[i].expires_at = Date(2025, 3, 1)

-----------------------------------------------------------------------------
(* Properties of useDomainSuggestions                                      *)

C7_OneTimer == Cardinality(hTimers) <= 1

C7_TimerIsCurrent ==
    \A t \in hTimers :
        hPhase = "mounted" /\ hProps.enabled /\ Trim(Str(hProps.query)) = t.q

C7_NoneAfterUnmount == hPhase = "unmounted" => hTimers = {}

C7_NoStaleInvocation == \A i \in hInvoked : i.current

\* C7: at most one timer is pending; a pending timer belongs to the current
\* query of the mounted, enabled hook, so a query replaced or unmounted before
\* its timer fires never invokes 'domainr-check'; after unmount no timer is
\* pending.
C7_DebounceCancels ==
    C7_OneTimer /\ C7_TimerIsCurrent /\ C7_NoneAfterUnmount /\ C7_NoStaleInvocation

\* two queries were typed and the hook unmounted before any timer fired
C7_Witness == hPhase = "unmounted" /\ hNextId = 3 /\ hInvoked = {} /\ hTimers = {}

\* the invocation c was started for a query that is no longer the hook's
Superseded(c) == hPhase # "mounted" \/ Trim(Str(hProps.query)) # c.q

\* C11 (as claimed): the answer of a 'domainr-check' invocation started for a
\* query that has since changed, become empty or been unmounted never changes
\* the hook's state.
C11_StaleResponseDropped ==
    [][\A c \in hCalls : (c \notin hCalls' /\ Superseded(c)) => hState' = hState]_vars

-----------------------------------------------------------------------------
(* Properties of super-admin-xendit-secret                                 *)

\* the request carries "Bearer <token>" and the token's claims verify with a subject
VerifiedSubject(r) ==
    LET h == Str(r.authorization)
        t == SubSeq(h, 8, Len(h))
    IN  /\ Len(h) > 7 /\ SubSeq(h, 1, 7) = <<66,101,97,114,101,114,32>>
        /\ ~GetClaims(t).error /\ GetClaims(t).sub # ""

SubjectOf(r) == GetClaims(SubSeq(Str(r.authorization), 8, Len(Str(r.authorization)))).sub

IsSuperAdmin(r) ==
    \E row \in user_roles : row.user_id = SubjectOf(r) /\ row.role = "super_admin"

NothingReturned(rs) == rs.configured = FALSE /\ rs.updated_at = NoDate

C8_Refused ==
    xReq.method = "POST"
    => /\ ~VerifiedSubject(xReq)
            => xResp = XUnauthorized /\ xTouched = "none"
       /\ (VerifiedSubject(xReq) /\ ~IsSuperAdmin(xReq) /\ ~xReq.failRole)
            => xResp.status = 403 /\ xTouched = "none" /\ NothingReturned(xResp)
       /\ xTouched # "none" => VerifiedSubject(xReq) /\ IsSuperAdmin(xReq)

C8_Frame ==
    integration_secrets' # integration_secrets
    => /\ VerifiedSubject(xReq') /\ IsSuperAdmin(xReq')
       /\ xResp'.status \notin {401, 403}

\* C8: the xendit api_key row is read, upserted or deleted only for a request
\* whose Bearer token verifies with a subject whose user_roles row has role
\* super_admin; without such a token the answer is 401, for another role 403,
\* and then the secret store is untouched and nothing about it is returned.
C8_SuperAdminOnly == []C8_Refused /\ [][C8_Frame]_vars

\* a user with another role asked to clear a configured key and was refused
C8_Witness ==
    /\ xResp.status = 403 /\ xReq.action = "clear" /\ SubjectOf(xReq) = "member"
    /\ \E r \in integration_secrets : IsXenditKeyRow(r)

\* the rows of integration_secrets holding the xendit api_key
XenditRows(secrets) == {r \in secrets : r.provider = "xendit" /\ r.name = "api_key"}

\* k is a secret key in the accepted format
WellFormedKey(k) ==
    /\ k # NULL
    /\ Len(k) >= 8 /\ Len(k) <= 256
    /\ \A i \in 1..Len(k) : k[i] \notin {9, 10, 11, 12, 13, 32}
    /\ SubSeq(k, 1, 4) = <<120,110,100,95>>
    /\ ~(Len(k) >= 11 /\ SubSeq(k, 1, 11) = <<120,110,100,95,112,117,98,108,105,99,95>>)

C13_StoredKey ==
    /\ Cardinality(XenditRows(integration_secrets)) <= 1
    /\ \A r \in XenditRows(integration_secrets) : r.iv = "plain" /\ WellFormedKey(r.ciphertext)

\* the request comes from the one super admin and its body parses
Authorised(r) ==
    /\ r.method = "POST" /\ r.parses /\ ~r.failRole
    /\ VerifiedSubject(r)
    /\ {row \in user_roles : row.user_id = SubjectOf(r)}
          = {[user_id |-> SubjectOf(r), role |-> "super_admin"]}

C13_Step ==
    Authorised(xReq') =>
        /\ (xReq'.action = "set" /\ ~WellFormedKey(Trim(Str(xReq'.api_key))))
             => xResp'.status = 400 /\ integration_secrets' = integration_secrets
        /\ (xReq'.action = "set" /\ WellFormedKey(Trim(Str(xReq'.api_key))) /\ ~xReq'.failDb)
             => /\ xResp' = XOk
                /\ \E r \in XenditRows(integration_secrets') :
                      r.ciphertext = Trim(Str(xReq'.api_key))
        /\ (xReq'.action = "get" /\ ~xReq'.failDb)
             => /\ xResp'.status = 200 /\ xResp'.body = "configured"
                /\ xResp'.configured <=> XenditRows(integration_secrets) # {}
                /\ integration_secrets' = integration_secrets
        /\ (xReq'.action = "clear" /\ ~xReq'.failDb)
             => xResp' = XOk /\ XenditRows(integration_secrets') = {}
        /\ xResp'.body \in {"configured", "ok: true", "error: message", "error: Unknown action",
                             "api_key is required", "Invalid api_key format",
                             "Invalid Xendit key. Use a key that starts with 'xnd_'",
                             "Invalid Xendit key for server-side usage."}

\* C13: the store holds at most one xendit api_key row, with iv 'plain' and
\* a trimmed key without whitespace, of length 8 to 256, starting with 'xnd_'
\* and not with 'xnd_public_'; an authorised 'set' with a key failing a check
\* is answered 400 and leaves the store as it is, 'get' reports configured
\* exactly when the row exists and returns no key, and 'clear' leaves no row.
C13_OneValidKey == []C13_StoredKey /\ [][C13_Step]_vars

\* a public key was refused while a key was configured
C13_Witness ==
    /\ Authorised(xReq) /\ xReq.action = "set"
    /\ xReq.api_key = <<120,110,100,95,112,117,98,108,105,99,95,97>>
    /\ xResp.status = 400
    /\ XenditRows(integration_secrets) # {}

====
